---- MODULE Spec2Model ----
(***************************************************************************)
(* A model of include/CLI/Timer.hpp: class Timer (a stopwatch with a      *)
(* repeated-timing loop, time_it, and a unit-scaling formatter,           *)
(* make_time_str), class AutoTimer (prints at destruction) and the        *)
(* stream insertion operator.                                              *)
(*                                                                         *)
(* Numbers.  The clock is read in whole ticks of one nanosecond.  A       *)
(* double holding seconds is the record [num, den, exp10], standing for   *)
(* the real number (num / den) * 10^exp10; arithmetic on it is exact, so  *)
(* the model is the code over the reals (the rounding of the binary       *)
(* double is not modelled, the rounding of "%.5g" to five significant     *)
(* digits is).  Strings are sequences of tokens: Lit(s) for literal text  *)
(* and the record that print_it's snprintf produces for a number.         *)
(***************************************************************************)
EXTENDS Integers, Sequences, FiniteSets, TLC

VARIABLES
    kind,          \* "Timer" or "AutoTimer": the dynamic type of the object
    title_,        \* Timer::title_
    time_print_,   \* Timer::time_print_: "Simple" or "Big"
    start_,        \* Timer::start_
    pc,            \* "idle", "call" (in time_it's loop, about to call f),
                   \* "done" (loop left, before line 65), "destroyed", "fmt"
    start,         \* time_it's local start
    n,             \* time_it's local n
    total_time,    \* time_it's local total_time
    target_time,   \* time_it's parameter target_time
    ret,           \* what the last finished call gave back to the caller
    stdout,        \* what has been written to std::cout
    sink,          \* what has been written to another std::ostream
    arg,           \* the argument of make_time_str(double) under test
    created,       \* history: the clock value read by the constructor
    before,        \* history: start_ when the current/last time_it was entered
    begun,         \* history: the clock value read at line 57
    lastRead,      \* history: the clock value read at line 61, last time
    calls,         \* history: invocations of f in the current/last time_it
    hit,           \* history: the invocation after which elapsed >= target
                   \*          was first seen (0: not seen)
    inserted,      \* history: stream insertions made so far
    toCout,        \* history: the texts operator<< handed to std::cout
    diedAt         \* history: the clock value read by the destructor

vars == <<kind, title_, time_print_, start_, pc, start, n, total_time,
          target_time, ret, stdout, sink, arg, created, before, begun,
          lastRead, calls, hit, inserted, toCout, diedAt>>

obj    == <<kind, title_, time_print_>>
frame  == <<start, n, total_time, target_time>>
hist   == <<before, begun, lastRead, calls, hit>>
io     == <<stdout, sink, inserted, toCout, diedAt>>

(***************************************************************************)
(* Bounds of the model and constants of the program.                       *)
(***************************************************************************)
MaxTime == 1        \* the clock reads a value in 0 .. MaxTime (nanoseconds)
MaxInserts == 1     \* stream insertions per object
MaxDen == 2         \* make_time_str inputs: denominators 1 .. MaxDen
MaxOff == 2         \* make_time_str inputs: offsets around a power of ten
MaxTries == 100     \* the literal in "n++ < 100"

Times   == 0 .. MaxTime
Targets == -1 .. (MaxTime + 1)   \* <= 0, reachable, and never reached
NoTime  == 0 * MaxTime             \* a local or history variable not set yet (never read)
CallsCap == MaxTries + 2         \* the history counter calls saturates here

(***************************************************************************)
(* Real numbers and the text of a number.                                  *)
(***************************************************************************)
RECURSIVE Pow10(_)
Pow10(k) == IF k = 0 THEN 1 ELSE 10 * Pow10(k - 1)

Abs(i) == IF i < 0 THEN -i ELSE i

\* num/den nanoseconds as a double holding seconds
Seconds(num, den) == [num |-> num, den |-> den, exp10 |-> -9]

\* x * 10^k
MulPow10(x, k) == [x EXCEPT !.exp10 = @ + k]

\* x < 10^k, for k >= x.exp10 (floor(q) < m iff q < m, for an integer m).
\* A zero denominator is the IEEE quotient by 0.0: -inf is below everything,
\* +inf and NaN are below nothing.
LessPow10(x, k) ==
    IF x.den = 0 THEN x.num < 0
    ELSE (x.num \div x.den) < Pow10(k - x.exp10)

\* x <= 10^k
LessEqPow10(x, k) ==
    \/ LessPow10(x, k)
    \/ x.den # 0 /\ x.num = Pow10(k - x.exp10) * x.den

Lit(s) == [lit |-> s]
Dec(i) == [int |-> i]
Num(neg, mant, exp) == [neg |-> neg, mant |-> mant, exp |-> exp]

RECURSIVE Log10Floor(_)
Log10Floor(q) == IF q < 10 THEN 0 ELSE 1 + Log10Floor(q \div 10)

RECURSIVE NegExp(_, _)
NegExp(a, d) == IF a >= d THEN 0 ELSE NegExp(a * 10, d) - 1

\* the e with 10^e <= a/d < 10^(e+1), for a > 0
Exp10Of(a, d) == IF a >= d THEN Log10Floor(a \div d) ELSE NegExp(a, d)

\* a/b to the nearest integer, ties to even
RoundHalfEven(a, b) ==
    LET q == a \div b
        r == a % b
    IN  IF 2 * r < b THEN q
        ELSE IF 2 * r > b THEN q + 1
        ELSE q + (q % 2)

\* snprintf(buffer, 50, "%.5g", x): x to five significant digits.  The text
\* is the record [neg, mant, exp], the number (+/-) mant * 10^(exp - 4) with
\* 10000 <= mant <= 99999, or mant = 0 for zero.
Fmt5g(x) ==
    LET a == Abs(x.num)
        d == x.den
        e == Exp10Of(a, d)
        m == IF e >= 4 THEN RoundHalfEven(a, d * Pow10(e - 4))
                       ELSE RoundHalfEven(a * Pow10(4 - e), d)
    IN  IF d = 0 THEN Lit(IF a = 0 THEN "nan" ELSE IF x.num < 0 THEN "-inf" ELSE "inf")
        ELSE IF a = 0 THEN Num(FALSE, 0, 0)
        ELSE IF m = 100000 THEN Num(x.num < 0, 10000, e + 1 + x.exp10)
        ELSE Num(x.num < 0, m, e + x.exp10)

\* the lambda print_it of make_time_str(double)
print_it(x, unit) == <<Fmt5g(x), Lit(" "), Lit(unit)>>

\* make_time_str with "<=" for "<" at the first threshold
make_time_str_le(time) ==
    IF LessEqPow10(time, -6) THEN print_it(MulPow10(time, 9), "ns")
    ELSE IF LessPow10(time, -3) THEN print_it(MulPow10(time, 6), "us")
    ELSE IF LessPow10(time, 0) THEN print_it(MulPow10(time, 3), "ms")
    ELSE print_it(time, "s")

\* make_time_str with .01 for .001 at the second threshold
make_time_str_typo(time) ==
    IF LessPow10(time, -6) THEN print_it(MulPow10(time, 9), "ns")
    ELSE IF LessPow10(time, -2) THEN print_it(MulPow10(time, 6), "us")
    ELSE IF LessPow10(time, 0) THEN print_it(MulPow10(time, 3), "ms")
    ELSE print_it(time, "s")

\* std::string make_time_str(double time) const
make_time_str(time) ==
    IF LessPow10(time, -6) THEN print_it(MulPow10(time, 9), "ns")
    ELSE IF LessPow10(time, -3) THEN print_it(MulPow10(time, 6), "us")
    ELSE IF LessPow10(time, 0) THEN print_it(MulPow10(time, 3), "ms")
    ELSE print_it(time, "s")

Dashes == "-----------------------------------------"

\* static std::string Simple(std::string title, std::string time)
Simple(title, time) == <<Lit(title), Lit(": ")>> \o time

\* static std::string Big(std::string title, std::string time)
Big(title, time) ==
    <<Lit(Dashes), Lit("\n"), Lit("| "), Lit(title), Lit(" | Time = ")>>
        \o time \o <<Lit("\n"), Lit(Dashes)>>

\* a call of the std::function time_print_
time_print(f, title, time) ==
    IF f = "Simple" THEN Simple(title, time) ELSE Big(title, time)

\* std::string make_time_str() const, the clock reading t
make_time_str_now(t) == make_time_str(Seconds(t - start_, 1))

\* std::string to_string() const, the clock reading t
to_string(t) == time_print(time_print_, title_, make_time_str_now(t))

(***************************************************************************)
(* The object after construction (lines 49-50, 109-110).                   *)
(***************************************************************************)
NoRet == [op |-> "none", text |-> <<>>]

Constructed(kinds) ==
    /\ kind \in kinds
    /\ title_ = "Timer"
    /\ time_print_ \in {"Simple", "Big"}
    /\ start_ \in Times
    /\ created = start_
    /\ pc = "idle"
    /\ start = NoTime /\ n = 0 /\ total_time = NoTime /\ target_time = NoTime
    /\ ret = NoRet
    /\ stdout = <<>> /\ sink = <<>>
    /\ arg = Seconds(0, 1)
    /\ before = start_ /\ begun = NoTime /\ lastRead = NoTime
    /\ calls = 0 /\ hit = 0
    /\ inserted = 0 /\ toCout = <<>> /\ diedAt = NoTime

Init == Constructed({"Timer"})

(***************************************************************************)
(* time_it (lines 53-68).                                                  *)
(***************************************************************************)
\* the history counter of invocations; CallsCap stands for "CallsCap or more"
Bump(c) == IF c < CallsCap THEN c + 1 ELSE c

\* lines 54-58, the loop entered at `entry`
Enter(t, target, entry) ==
    /\ pc = "idle"
    /\ start' = start_
    /\ start_' = t
    /\ n' = 0
    /\ total_time' = NoTime
    /\ target_time' = target
    /\ pc' = entry
    /\ ret' = NoRet
    /\ before' = start_ /\ begun' = t /\ lastRead' = NoTime
    /\ calls' = 0 /\ hit' = 0
    /\ UNCHANGED <<obj, io, arg, created>>

\* a while loop for the do-while: the condition is tested before the body
TimeItBeginWhile(t, target) ==
    Enter(t, target, IF 0 < target THEN "call" ELSE "done")

\* lines 54-59: save start_, restart the stopwatch, n = 0, and enter the
\* do-while body without a test
TimeItBegin(t, target) == Enter(t, target, "call")

\* line 61: clock::now() - start_, the clock reading t
Elapsed(t, s) == t - s

\* n never incremented ("n < 100")
PostIncStuck(i) == i

\* line 63: the left operand's side effect, n++, evaluated on every turn
PostInc(i) == i + 1

\* "<=" for "<" in the comparison with target_time
ContinueLe(i, total, target) == i < MaxTries /\ total <= target

\* line 63: n++ < 100 && total_time < target_time, on the value of n before
\* the increment
Continue(i, total, target) == i < MaxTries /\ total < target

\* lines 59-63: one turn of the do-while loop in which f() returns
Iterate(t) ==
    /\ pc = "call"
    /\ total_time' = Elapsed(t, start_)
    /\ n' = PostInc(n)
    /\ pc' = IF Continue(n, total_time', target_time) THEN "call" ELSE "done"
    /\ calls' = Bump(calls)
    /\ lastRead' = t
    /\ hit' = IF hit = 0 /\ total_time' >= target_time THEN calls' ELSE hit
    /\ UNCHANGED <<obj, io, arg, created, start_, start, target_time, ret,
                   before, begun>>

\* line 60: f() throws; nothing in time_it catches, the frame is unwound and
\* lines 61-67 do not run
Throw ==
    /\ pc = "call"
    /\ pc' = "idle"
    /\ calls' = Bump(calls)
    /\ ret' = [op |-> "throw", text |-> <<>>]
    /\ UNCHANGED <<obj, io, arg, created, start_, frame, before, begun,
                   lastRead, hit>>

\* the total, not the average
time_it_out_nodiv(total, i) ==
    make_time_str(Seconds(total, 1)) \o <<Lit(" for "), Dec(i), Lit(" tries")>>

\* line 65: the returned string
time_it_out(total, i) ==
    make_time_str(Seconds(total, i)) \o <<Lit(" for "), Dec(i), Lit(" tries")>>

\* line 66 left out
NotRestored(saved, current) == current

\* line 66: start_ = start
Restored(saved, current) == saved

\* lines 65-67
Finish ==
    /\ pc = "done"
    /\ ret' = [op |-> "time_it", text |-> time_it_out(total_time, n)]
    /\ start_' = Restored(start, start_)
    /\ pc' = "idle"
    /\ UNCHANGED <<obj, io, arg, created, frame, hist>>

(***************************************************************************)
(* to_string, operator<< and the destructors.                              *)
(***************************************************************************)
\* lines 98-100, called by the user
Render(t) ==
    /\ pc = "idle"
    /\ ret' = [op |-> "to_string", text |-> to_string(t)]
    /\ UNCHANGED <<obj, io, arg, created, start_, frame, pc, hist>>

\* lines 122-124: in << timer.to_string(), the stream being std::cout or not
Insert(t, stream) ==
    /\ pc = "idle"
    /\ inserted < MaxInserts
    /\ inserted' = inserted + 1
    /\ IF stream = "cout"
       THEN /\ stdout' = stdout \o to_string(t)
            /\ toCout' = toCout \o to_string(t)
            /\ sink' = sink
       ELSE /\ sink' = sink \o to_string(t)
            /\ UNCHANGED <<stdout, toCout>>
    /\ UNCHANGED <<obj, arg, created, start_, frame, pc, hist, ret, diedAt>>

\* the printing destructor in the base class
DtorOutputBase(k, t) == to_string(t) \o <<Lit("\n")>>

\* what the destructor of an object of dynamic type k writes to std::cout,
\* the clock reading t (lines 114-116; Timer's destructor is implicit)
DtorOutput(k, t) ==
    IF k = "AutoTimer" THEN to_string(t) \o <<Lit("\n")>> ELSE <<>>

Destroy(t) ==
    /\ pc = "idle"
    /\ pc' = "destroyed"
    /\ stdout' = stdout \o DtorOutput(kind, t)
    /\ diedAt' = IF kind = "AutoTimer" THEN t ELSE diedAt
    /\ UNCHANGED <<obj, arg, created, start_, frame, hist, ret, sink,
                   inserted, toCout>>

(***************************************************************************)
(* Specifications.                                                         *)
(***************************************************************************)
\* a Timer, timed functions that return or throw
Next ==
    \/ \E t \in Times, target \in Targets : TimeItBegin(t, target)
    \/ \E t \in Times : Iterate(t)
    \/ Throw
    \/ Finish
    \/ \E t \in Times : Render(t)

Spec == Init /\ [][Next]_vars

\* a Timer whose timed function always returns; the loop and the return are
\* steps of the one thread that runs time_it, so they are taken when enabled
NextLive ==
    \/ \E t \in Times, target \in Targets : TimeItBegin(t, target)
    \/ \E t \in Times : Iterate(t)
    \/ Finish
    \/ \E t \in Times : Render(t)

LiveSpec ==
    /\ Init
    /\ [][NextLive]_vars
    /\ WF_vars(\E t \in Times : Iterate(t))
    /\ WF_vars(Finish)

\* a Timer or an AutoTimer and the streams, to the end of the object's life;
\* time_it is entered with a target that the first reading meets
InitIo == Constructed({"Timer", "AutoTimer"})

IoTargets == {-MaxTime}

NextIo ==
    \/ \E t \in Times, target \in IoTargets : TimeItBegin(t, target)
    \/ \E t \in Times : Iterate(t)
    \/ Throw
    \/ Finish
    \/ \E t \in Times : Render(t)
    \/ \E t \in Times, stream \in {"cout", "other"} : Insert(t, stream)
    \/ \E t \in Times : Destroy(t)

IoSpec == InitIo /\ [][NextIo]_vars

\* make_time_str(double) alone, on durations around each threshold
FmtNums ==
    (0 .. MaxOff) \cup
    { Pow10(k) * m + j : k \in {0, 3, 6}, m \in 1 .. MaxDen,
                         j \in (-MaxOff) .. MaxOff } \cup
    { Pow10(9) * m + j : m \in 1 .. 2, j \in (-MaxOff) .. MaxOff }

FmtInputs ==
    { Seconds(s * num, den) : s \in {1, -1}, num \in FmtNums,
                              den \in 1 .. MaxDen }

InitFmt ==
    /\ kind = "Timer" /\ title_ = "Timer" /\ time_print_ = "Simple"
    /\ start_ = 0 /\ created = 0
    /\ pc = "fmt"
    /\ start = NoTime /\ n = 0 /\ total_time = NoTime /\ target_time = NoTime
    /\ ret = NoRet
    /\ stdout = <<>> /\ sink = <<>>
    /\ arg \in FmtInputs
    /\ before = 0 /\ begun = NoTime /\ lastRead = NoTime
    /\ calls = 0 /\ hit = 0
    /\ inserted = 0 /\ toCout = <<>> /\ diedAt = NoTime

Format ==
    /\ pc = "fmt"
    /\ ret = NoRet
    /\ ret' = [op |-> "make_time_str", text |-> make_time_str(arg)]
    /\ UNCHANGED <<obj, io, arg, created, start_, frame, pc, hist>>

NextFmt == Format

FmtSpec == InitFmt /\ [][NextFmt]_vars

(***************************************************************************)
(* Properties.                                                             *)
(***************************************************************************)
Returned == pc = "idle" /\ ret.op = "time_it"

\* C1: one call of time_it invokes f at most 100 times.
C1_AtMost100Calls == calls <= MaxTries

\* C2: time_it has invoked f at least once when its loop is left and when it
\* returns, whatever target_time is (target_time <= 0 included).
C2_AtLeastOnce == (pc = "done" \/ Returned) => calls >= 1

C2_Witness == Returned /\ target_time <= 0 /\ calls = 1

\* C3: after time_it returns normally, start_ is what it was immediately
\* before the call, however many invocations the call made.
C3_StartRestored == Returned => start_ = before

C3_Witness == Returned /\ calls > 1 /\ begun # before /\ start_ = before

\* C4: inside time_it the elapsed time is measured from the clock value read
\* at the beginning of the call, and no invocation of f follows one after
\* which that elapsed time was >= target_time (so an invocation that meets
\* the target at once is the only one).
C4_StopsOnceReached ==
    /\ (pc \in {"call", "done"} /\ calls >= 1) => total_time = lastRead - begun
    /\ pc = "call" => hit = 0
    /\ hit # 0 => calls = hit

C4_Witness == Returned /\ hit >= 2 /\ calls = hit /\ begun # before

\* C5: the string time_it returns is make_time_str(elapsed / N) followed by
\* " for N tries", N being the number of invocations of f made by the call,
\* N >= 1.
C5_TriesIsCalls ==
    Returned =>
        /\ calls >= 1
        /\ ret.text = make_time_str(Seconds(lastRead - begun, calls))
                        \o <<Lit(" for "), Dec(calls), Lit(" tries")>>

C5_Witness == Returned /\ hit = 0 /\ calls > 1 /\ lastRead # begun

\* the duration arg, in nanoseconds, is below the whole number m
BelowNs(m) == arg.num \div arg.den < m

Formatted == pc = "fmt" /\ ret.op = "make_time_str"

\* C6: make_time_str(d) picks the unit by strict thresholds: ns and d*1e9
\* for d < 1e-6, us and d*1e6 for 1e-6 <= d < 1e-3, ms and d*1e3 for
\* 1e-3 <= d < 1, s and d for d >= 1; d equal to a threshold takes the
\* larger unit.  The value is printed with five significant digits.
C6_Thresholds ==
    Formatted =>
        ret.text =
            IF BelowNs(1000)
            THEN <<Fmt5g([num |-> arg.num, den |-> arg.den, exp10 |-> 0]),
                   Lit(" "), Lit("ns")>>
            ELSE IF BelowNs(1000000)
            THEN <<Fmt5g([num |-> arg.num, den |-> arg.den, exp10 |-> -3]),
                   Lit(" "), Lit("us")>>
            ELSE IF BelowNs(1000000000)
            THEN <<Fmt5g([num |-> arg.num, den |-> arg.den, exp10 |-> -6]),
                   Lit(" "), Lit("ms")>>
            ELSE <<Fmt5g([num |-> arg.num, den |-> arg.den, exp10 |-> -9]),
                   Lit(" "), Lit("s")>>

C6_Witness == Formatted /\ arg = Seconds(1000, 1) /\ ret.text[3] = Lit("us")

\* the printed number is >= 1
PrintedAtLeast1(v) == ~v.neg /\ v.mant > 0 /\ v.exp >= 0
\* the printed number is < 1000
PrintedBelow1000(v) == v.mant = 0 \/ v.neg \/ v.exp <= 2
\* the printed number is 1000
Printed1000(v) == v = Num(FALSE, 10000, 3)
\* the printed number is <= 1
PrintedAtMost1(v) == ~PrintedAtLeast1(v) \/ v = Num(FALSE, 10000, 0)

\* C7, as claimed: for every d >= 0 the value make_time_str(d) prints is
\* >= 1, and < 1000 when the unit is ns, us or ms.
C7_ValueAtLeastOne ==
    (Formatted /\ arg.num >= 0) =>
        /\ PrintedAtLeast1(ret.text[1])
        /\ ret.text[3] # Lit("s") => PrintedBelow1000(ret.text[1])

\* C7, amended: for d >= 1e-9 the printed value is >= 1; for 0 <= d < 1e-9
\* the unit is ns and the printed value is <= 1; when the unit is ns, us or
\* ms the printed value is < 1000 or, by the rounding to five significant
\* digits, exactly 1000.
C7_Amended ==
    (Formatted /\ arg.num >= 0) =>
        /\ ~BelowNs(1) => PrintedAtLeast1(ret.text[1])
        /\ BelowNs(1) => ret.text[3] = Lit("ns") /\ PrintedAtMost1(ret.text[1])
        /\ ret.text[3] # Lit("s") =>
               PrintedBelow1000(ret.text[1]) \/ Printed1000(ret.text[1])

C7_Witness ==
    Formatted /\ arg = Seconds(1, 2) /\ ret.text[1] = Num(FALSE, 50000, -1)

\* what an AutoTimer's destructor has written, once it has run
DtorLine ==
    IF kind = "AutoTimer" /\ pc = "destroyed"
    THEN to_string(diedAt) \o <<Lit("\n")>> ELSE <<>>

\* C8, as claimed: standard output holds nothing but the line an AutoTimer's
\* destructor writes, to_string() and a newline; construction, to_string,
\* time_it and stream insertion write nothing to it, nor does the end of a
\* Timer.
C8_OnlyDtorWrites == stdout = DtorLine

\* C8, amended: standard output holds what the caller inserted into
\* std::cout with operator<<, followed by the one line an AutoTimer's
\* destructor writes; nothing else writes to it.
C8_Amended == stdout = toCout \o DtorLine

C8_Witness ==
    /\ kind = "AutoTimer" /\ pc = "destroyed" /\ ret.op = "time_it"
    /\ toCout # <<>> /\ Len(stdout) > Len(toCout)

\* C9: whenever no time_it call is in progress, start_ is the clock value
\* read at construction, also after a call that f left by throwing.
C9_StartIsConstructionTime == pc = "idle" => start_ = created

\* C10: if every invocation of f returns, a call of time_it returns, for any
\* target_time and any clock.
C10_Terminates == (pc = "call") ~> (pc = "idle")

C10_Witness == Returned /\ hit = 0 /\ target_time > MaxTime

====
